---- MODULE Spec2Model ----
(***************************************************************************)
(* Protocol session layer of the React Native debugger scripts:            *)
(*   scripts/execute_in_app.py  (evaluation flow)                          *)
(*   scripts/read_logs.py       (log capture flow)                         *)
(*                                                                         *)
(* Two execution contexts share the session state:                         *)
(*   - the background thread runs ws.run_forever() and invokes the         *)
(*     on_open / on_message / on_error callbacks;                          *)
(*   - the controlling thread joins it with a timeout, force-closes the    *)
(*     channel and returns.                                                *)
(* Callbacks are split at their writes to the shared state so that every   *)
(* interleaving of the two threads that the interpreter allows is a        *)
(* behaviour of the model.                                                 *)
(*                                                                         *)
(* Python values: None is the string NoneVal, a missing dict key is the    *)
(* string Absent, text is a TLA+ string.                                   *)
(***************************************************************************)
EXTENDS Integers, Sequences, FiniteSets, TLC

\* ------------------------------------------------------------------ bounds
\* Number of messages the peer delivers in one session.
MaxMsgs == 3
\* Largest configured max_logs explored.
MaxLogsBound == 2
MaxApps == 2

\* ------------------------------------------------------------- Python values
NoneVal == "<None>"
Absent == "<absent>"

\* Python truthiness of a str-or-None value.
Truthy(v) == v # NoneVal /\ v # ""

\* d.get(key, default) for a key whose value is v (Absent when missing).
Get(v, default) == IF v = Absent THEN default ELSE v

\* s contains sub as a contiguous substring (Python `sub in s`, re.search of a
\* literal pattern).
Contains(s, sub) ==
    \E i \in 1..(Len(s) - Len(sub) + 1) : SubSeq(s, i, i + Len(sub) - 1) = sub

\* " ".join(parts)
RECURSIVE JoinSpace(_)
JoinSpace(parts) ==
    IF parts = <<>> THEN ""
    ELSE IF Len(parts) = 1 THEN parts[1]
    ELSE parts[1] \o " " \o JoinSpace(Tail(parts))

\* ---------------------------------------------------------------- JSON values
\* An inline JSON value of a RemoteObject: absent, number, string, null or a
\* list of numbers (the composite case).
VAbsent == [tag |-> "absent", n |-> 0, s |-> "", items |-> <<>>]
VNum(n) == [tag |-> "num", n |-> n, s |-> "", items |-> <<>>]
VStr(s) == [tag |-> "str", n |-> 0, s |-> s, items |-> <<>>]
VNull == [tag |-> "null", n |-> 0, s |-> "", items |-> <<>>]
VList(items) == [tag |-> "list", n |-> 0, s |-> "", items |-> items]

\* str(val) for a non-composite value.
PyStr(val) ==
    CASE val.tag = "num" -> ToString(val.n)
      [] val.tag = "str" -> val.s
      [] val.tag = "null" -> "None"
      [] OTHER -> ""

RECURSIVE JsonItems(_)
JsonItems(items) ==
    IF Len(items) = 1 THEN "  " \o ToString(items[1])
    ELSE "  " \o ToString(items[1]) \o ",\n" \o JsonItems(Tail(items))

\* json.dumps(val, indent=2) for a list of numbers.
JsonDumps(val) ==
    IF val.items = <<>> THEN "[]" ELSE "[\n" \o JsonItems(val.items) \o "\n]"

\* isinstance(val, (dict, list))
IsComposite(val) == val.tag = "list"

\* A RemoteObject; every field may be missing.
RemoteValue(type, subtype, value, description, unser) ==
    [type |-> type, subtype |-> subtype, value |-> value,
     description |-> description, unserializableValue |-> unser]

\* Mutant of format_result: the description is looked at before the value.
format_result_description_first(result) ==
    LET obj_type == Get(result.type, "unknown")
        subtype == Get(result.subtype, "")
    IN  IF obj_type = "undefined" THEN "undefined"
        ELSE IF result.subtype = "null" THEN "null"
        ELSE IF result.description # Absent THEN result.description
        ELSE IF result.value.tag # "absent"
             THEN IF IsComposite(result.value) THEN JsonDumps(result.value)
                  ELSE PyStr(result.value)
        ELSE IF result.unserializableValue # Absent THEN result.unserializableValue
        ELSE "[" \o obj_type \o (IF subtype # "" THEN " " \o subtype ELSE "") \o "]"

\* execute_in_app.format_result
format_result(result) ==
    LET obj_type == Get(result.type, "unknown")
        subtype == Get(result.subtype, "")
    IN  IF obj_type = "undefined" THEN "undefined"
        ELSE IF result.subtype = "null" THEN "null"
        ELSE IF result.value.tag # "absent"
             THEN IF IsComposite(result.value) THEN JsonDumps(result.value)
                  ELSE PyStr(result.value)
        ELSE IF result.description # Absent THEN result.description
        ELSE IF result.unserializableValue # Absent THEN result.unserializableValue
        ELSE "[" \o obj_type \o (IF subtype # "" THEN " " \o subtype ELSE "") \o "]"

\* read_logs.format_remote_object
format_remote_object(obj) ==
    LET obj_type == Get(obj.type, "unknown")
        subtype == Get(obj.subtype, "")
    IN  IF obj_type = "undefined" THEN "undefined"
        ELSE IF obj.subtype = "null" THEN "null"
        ELSE IF obj.description # Absent THEN obj.description
        ELSE IF obj.value.tag # "absent"
             THEN IF IsComposite(obj.value) THEN JsonDumps(obj.value)
                  ELSE PyStr(obj.value)
        ELSE IF obj.unserializableValue # Absent THEN obj.unserializableValue
        ELSE "[" \o obj_type \o (IF subtype # "" THEN " " \o subtype ELSE "") \o "]"

\* ----------------------------------------------------------- target resolver
\* An entry of the list discover_apps returns.
App(id, title) == [id |-> id, title |-> title]
NoApp == App(Absent, Absent)

\* The lines "  - <id>: <title>" printed under "Available apps:".
RECURSIVE Available(_)
Available(apps) ==
    IF apps = <<>> THEN <<>>
    ELSE <<"  - " \o apps[1].id \o ": " \o apps[1].title>> \o Available(Tail(apps))

NO_APPS_ERROR == "Error: No React Native apps connected."
NotFoundError(app_id) == "Error: App with ID '" \o app_id \o "' not found."
MULTIPLE_APPS_ERROR == "Error: Multiple apps connected. Specify --app-id."

\* return app
Returned(app) == [app |-> app, error |-> NoneVal, available |-> <<>>]
\* print(..., file=sys.stderr) followed by sys.exit(1)
Exited(error, available) == [app |-> NoApp, error |-> error, available |-> available]
NoOutcome == [app |-> NoApp, error |-> Absent, available |-> <<>>]

\* for app in apps: if app.get("id") == app_id: return app
FirstMatch(apps, app_id) ==
    LET hits == {i \in 1..Len(apps) : apps[i].id = app_id}
    IN  IF hits = {} THEN 0 ELSE CHOOSE i \in hits : \A j \in hits : i <= j

\* resolve_app of execute_in_app.py and of read_logs.py (same body), applied
\* to the list discover_apps returned.
resolve_app(app_id, apps) ==
    IF apps = <<>> THEN Exited(NO_APPS_ERROR, <<>>)
    ELSE IF Truthy(app_id)
         THEN IF FirstMatch(apps, app_id) # 0
                THEN Returned(apps[FirstMatch(apps, app_id)])
                ELSE Exited(NotFoundError(app_id), Available(apps))
    ELSE IF Len(apps) = 1 THEN Returned(apps[1])
    ELSE Exited(MULTIPLE_APPS_ERROR, Available(apps))

\* ------------------------------------------------------------ wire messages
RV0 == RemoteValue(Absent, Absent, VAbsent, Absent, Absent)

\* A message as the channel delivers it: a JSON object (kind "json") whose
\* keys may be missing, or text that json.loads rejects (kind "text").
\* id = 0 stands for a message without "id" (data.get("id") is None).
JsonMsg ==
    [kind |-> "json", id |-> 0, method |-> Absent,
     hasError |-> FALSE, errMessage |-> Absent,
     hasResult |-> FALSE, hasExc |-> FALSE, excDesc |-> Absent, excText |-> Absent,
     hasInner |-> FALSE, inner |-> RV0,
     level |-> Absent, args |-> <<>>, hasStack |-> FALSE, frames |-> <<>>]

NoMsg == [JsonMsg EXCEPT !.kind = "none"]
NotJson == [JsonMsg EXCEPT !.kind = "text"]

\* {"id": id, "result": {}}
Ack(id) == [JsonMsg EXCEPT !.id = id, !.hasResult = TRUE]
\* {"id": id, "error": {"message": message}}
ErrResp(id, message) == [JsonMsg EXCEPT !.id = id, !.hasError = TRUE, !.errMessage = message]
\* {"id": id, "result": {"result": inner}}
ValResp(id, inner) ==
    [JsonMsg EXCEPT !.id = id, !.hasResult = TRUE, !.hasInner = TRUE, !.inner = inner]
\* {"id": id, "result": {"exceptionDetails": {"text": text, "exception": {"description": desc}}}}
ExcResp(id, desc, text) ==
    [JsonMsg EXCEPT !.id = id, !.hasResult = TRUE, !.hasExc = TRUE,
                    !.excDesc = desc, !.excText = text]
\* {"method": method, "params": {"type": level, "args": args}}
Event(method, level, args) ==
    [JsonMsg EXCEPT !.method = method, !.level = level, !.args = args]

UNSUPPORTED_MSG == "You are using an unsupported debugging client"
CONSOLE_API == "Runtime.consoleAPICalled"

Seven == RemoteValue("number", Absent, VNum(7), "7", Absent)
StrArg(s) == RemoteValue("string", Absent, VStr(s), Absent, Absent)
DescArg(d) == RemoteValue("object", Absent, VAbsent, d, Absent)

\* What the peer may deliver in an evaluation session.
EvalMessages ==
    { Ack(1),
      ValResp(2, Seven),
      ValResp(2, RemoteValue("undefined", Absent, VAbsent, Absent, Absent)),
      Ack(2),
      [JsonMsg EXCEPT !.id = 2],
      ErrResp(2, "boom"),
      ErrResp(2, Absent),
      ErrResp(2, ""),
      ExcResp(2, "TypeError: x", "Uncaught"),
      ExcResp(2, Absent, "Uncaught"),
      ExcResp(2, "", "Uncaught"),
      ExcResp(2, Absent, Absent),
      [ExcResp(2, "TypeError: x", "Uncaught") EXCEPT !.hasInner = TRUE, !.inner = Seven],
      [ExcResp(2, "TypeError: x", "Uncaught") EXCEPT !.hasError = TRUE, !.errMessage = "boom"],
      Ack(3),
      Event(CONSOLE_API, "log", <<StrArg("hello")>>),
      NotJson }

Frame(fn, hasLine, line) == [functionName |-> fn, hasLine |-> hasLine, lineNumber |-> line]

\* What the peer may deliver in a log capture session.
LogMessages ==
    { Ack(1),
      Event(CONSOLE_API, "log", <<StrArg("hello")>>),
      Event(CONSOLE_API, Absent, <<StrArg("a"), Seven>>),
      [Event(CONSOLE_API, "error", <<DescArg("boom err")>>)
          EXCEPT !.hasStack = TRUE, !.frames = <<Frame("render", TRUE, 3)>>],
      [Event(CONSOLE_API, "warning", <<StrArg("err")>>)
          EXCEPT !.hasStack = TRUE, !.frames = <<Frame(Absent, FALSE, 0)>>],
      Event(CONSOLE_API, "warning", <<StrArg(UNSUPPORTED_MSG)>>),
      Event(CONSOLE_API, "log", <<StrArg("err:"), StrArg(UNSUPPORTED_MSG \o ".")>>),
      Event("Runtime.executionContextCreated", Absent, <<>>),
      NotJson }

\* Descriptions of the errors the transport may report.
TransportErrors == {"Connection reset"}

TIMEOUT_ERROR == "Timeout: Expression took too long to evaluate"

\* -------------------------------------------------------------------- state
VARIABLES
    flow,             \* "eval" (execute_in_app) or "logs" (read_logs)
    max_logs,         \* read_logs parameter
    pattern,          \* read_logs parameter (Absent: None)
    result,           \* execute_in_app: the dict that is returned
    message_id,       \* nonlocal counter
    runtime_enabled,  \* execute_in_app: nonlocal flag
    logs,             \* read_logs: the list that is returned
    chan,             \* the channel: "connecting", "open" or "closed"
    wire,             \* what crossed the channel, in order: requests out, messages in
    bgpc,             \* position of the background thread (run_ws)
    cur,              \* the message whose on_message call is in flight
    err,              \* the error whose on_error call is in flight
    ctlpc,            \* position of the controlling thread
    call,             \* helper functions: the arguments of the call
    ret               \* helper functions: what each one returned

vars == <<flow, max_logs, pattern, result, message_id, runtime_enabled, logs,
          chan, wire, bgpc, cur, err, ctlpc, call, ret>>

\* What a session never writes: its parameters, and the arguments and return
\* values of the helper functions called outside it.
session == <<flow, max_logs, pattern, call, ret>>

Out(id, method) == [dir |-> "out", id |-> id, method |-> method]
In(m) == [dir |-> "in", id |-> m.id, method |-> m.method]

\* The requests sent so far, in order.
Sent == SelectSeq(wire, LAMBDA w : w.dir = "out")
\* The number of messages delivered so far.
Delivered == Len(SelectSeq(wire, LAMBDA w : w.dir = "in"))

\* ws.send(json.dumps(request)): the request goes out on an open channel.
Send(id, method) == IF chan = "open" THEN Append(wire, Out(id, method)) ELSE wire

\* result = {"success": False, "output": None, "error": None}
\* No helper function is being called.
NoCall == [fn |-> "none", rv |-> RV0, app_id |-> NoneVal, apps |-> <<>>]
NoRet == [output |-> Absent, text |-> Absent, target |-> NoOutcome]

InitResult == [success |-> FALSE, output |-> NoneVal, error |-> NoneVal]

Init ==
    /\ flow \in {"eval", "logs"}
    /\ \/ flow = "eval" /\ max_logs = 0 /\ pattern = Absent
       \/ flow = "logs" /\ max_logs \in 0..MaxLogsBound /\ pattern \in {Absent, "err"}
    /\ result = InitResult
    /\ message_id = 1
    /\ runtime_enabled = FALSE
    /\ logs = <<>>
    /\ chan = "connecting"
    /\ wire = <<>>
    /\ bgpc = "connect"
    /\ cur = NoMsg
    /\ err = Absent
    /\ ctlpc = "join"
    /\ call = NoCall
    /\ ret = NoRet

\* ------------------------------------------------------- background thread
\* on_open (both flows): the connection is up, the enable request goes out.
OnOpen ==
    /\ bgpc = "connect" /\ chan = "connecting"
    /\ chan' = "open"
    /\ wire' = Append(wire, Out(message_id, "Runtime.enable"))
    /\ message_id' = message_id + 1
    /\ bgpc' = "loop"
    /\ UNCHANGED <<session, result, runtime_enabled, logs, cur, err, ctlpc>>

\* run_forever's read loop hands the next message of the peer to on_message.
Deliver(m) ==
    /\ bgpc = "loop" /\ chan = "open"
    /\ Delivered < MaxMsgs
    /\ m \in (IF flow = "eval" THEN EvalMessages ELSE LogMessages)
    /\ cur' = m
    /\ wire' = Append(wire, In(m))
    /\ bgpc' = "on_message"
    /\ UNCHANGED <<session, result, message_id, runtime_enabled, logs, chan, err, ctlpc>>

\* data["error"].get("message", "Unknown error")
ErrorMessage(m) == Get(m.errMessage, "Unknown error")

\* Mutant of ExceptionError: the summary text is preferred to the description.
ExceptionErrorTextFirst(m) ==
    IF m.excText # Absent THEN m.excText
    ELSE IF Truthy(Get(m.excDesc, NoneVal)) THEN m.excDesc ELSE "Exception"

\* exc_obj.get("description") or exc.get("text", "Exception")
ExceptionError(m) ==
    IF Truthy(Get(m.excDesc, NoneVal)) THEN m.excDesc ELSE Get(m.excText, "Exception")

\* Mutant of IsEnableResponse: every response that is not the evaluate response
\* is taken for the enable response.
IsEnableResponseAnyId(m) == m.kind = "json" /\ m.id # 0 /\ m.id # 2

\* Mutant of IsEvaluateResponse: every id from 2 up is taken for the
\* evaluate response.
IsEvaluateResponseFromTwoUp(m) == m.kind = "json" /\ m.id >= 2

\* msg_id == 1
IsEnableResponse(m) == m.kind = "json" /\ m.id = 1
\* elif msg_id == 2
IsEvaluateResponse(m) == m.kind = "json" /\ m.id = 2

\* The id of the evaluate request.
EvaluateId == 2

\* execute_in_app.on_message, branch msg_id == 1.
EvalOnEnableResponse ==
    /\ flow = "eval" /\ bgpc = "on_message"
    /\ IsEnableResponse(cur)
    /\ runtime_enabled' = TRUE
    /\ wire' = Send(EvaluateId, "Runtime.evaluate")
    /\ bgpc' = "loop"
    /\ cur' = NoMsg
    /\ UNCHANGED <<session, result, message_id, logs, chan, err, ctlpc>>

\* execute_in_app.on_message, branch msg_id == 2 up to its first write.
EvalOnEvaluateResponse ==
    /\ flow = "eval" /\ bgpc = "on_message"
    /\ ~IsEnableResponse(cur) /\ IsEvaluateResponse(cur)
    /\ IF cur.hasError
         THEN result' = [result EXCEPT !.error = ErrorMessage(cur)] /\ bgpc' = "ws_close"
       ELSE IF cur.hasResult
         THEN IF cur.hasExc
                THEN /\ result' = [result EXCEPT !.error = ExceptionError(cur)]
                     /\ bgpc' = "ws_close"
                ELSE /\ result' = [result EXCEPT !.success = TRUE]
                     /\ bgpc' = "set_output"
       ELSE result' = result /\ bgpc' = "ws_close"
    /\ UNCHANGED <<session, message_id, runtime_enabled, logs, chan, wire, cur, err, ctlpc>>

\* result["output"] = format_result(eval_result["result"]) / "undefined"
EvalSetOutput ==
    /\ flow = "eval" /\ bgpc = "set_output"
    /\ result' = [result EXCEPT !.output =
                    IF cur.hasInner THEN format_result(cur.inner) ELSE "undefined"]
    /\ bgpc' = "ws_close"
    /\ UNCHANGED <<session, message_id, runtime_enabled, logs, chan, wire, cur, err, ctlpc>>

\* ws.close() at the end of the msg_id == 2 branch.
EvalWsClose ==
    /\ flow = "eval" /\ bgpc = "ws_close"
    /\ chan' = "closed"
    /\ bgpc' = "teardown"
    /\ cur' = NoMsg
    /\ UNCHANGED <<session, result, message_id, runtime_enabled, logs, wire, err, ctlpc>>

\* execute_in_app.on_message: any other id, an event, or text json.loads rejects.
EvalOnOtherMessage ==
    /\ flow = "eval" /\ bgpc = "on_message"
    /\ ~IsEnableResponse(cur) /\ ~IsEvaluateResponse(cur)
    /\ bgpc' = "loop"
    /\ cur' = NoMsg
    /\ UNCHANGED <<session, result, message_id, runtime_enabled, logs, chan, wire, err, ctlpc>>

\* " ".join(format_remote_object(arg) for arg in args)
RECURSIVE FormatArgs(_)
FormatArgs(args) ==
    IF args = <<>> THEN <<>>
    ELSE <<format_remote_object(Head(args))>> \o FormatArgs(Tail(args))

EventText(m) == JoinSpace(FormatArgs(m.args))

\* Mutant of FilteredOut: the filter pattern is not applied.
FilterIgnored(text) == FALSE

\* compiled_pattern and not compiled_pattern.search(text)
FilteredOut(text) == Truthy(Get(pattern, NoneVal)) /\ ~Contains(text, pattern)

\* Mutant of Accepted: the unsupported-client diagnostic is not recognised.
AcceptedWithoutDiagnosticCheck(m) ==
    /\ m.kind = "json"
    /\ m.method = CONSOLE_API
    /\ ~FilteredOut(EventText(m))

\* read_logs.on_message reaches logs.append for message m.
Accepted(m) ==
    /\ m.kind = "json"
    /\ m.method = CONSOLE_API
    /\ ~Contains(EventText(m), UNSUPPORTED_MSG)
    /\ ~FilteredOut(EventText(m))

\* f"{top.get('functionName', 'anonymous')} (line {top.get('lineNumber', '?')})"
Location(top) ==
    Get(top.functionName, "anonymous") \o " (line "
        \o (IF top.hasLine THEN ToString(top.lineNumber) ELSE "?") \o ")"

\* The log_entry read_logs.on_message builds ("location" Absent: key not set).
LogEntry(m) ==
    LET level == Get(m.level, "log")
    IN  [level |-> level,
         text |-> EventText(m),
         location |-> IF level \in {"error", "warning"} /\ m.hasStack /\ m.frames # <<>>
                      THEN Location(m.frames[1]) ELSE Absent]

\* if len(logs) >= max_logs
LimitReached(n) == n >= max_logs

\* Mutant of LogsOnMessage: the new record is put in front of the list.
LogsOnMessagePrepend ==
    /\ flow = "logs" /\ bgpc = "on_message"
    /\ IF Accepted(cur)
         THEN /\ logs' = <<LogEntry(cur)>> \o logs
              /\ IF LimitReached(Len(logs'))
                   THEN chan' = "closed" /\ bgpc' = "teardown"
                   ELSE chan' = chan /\ bgpc' = "loop"
         ELSE logs' = logs /\ chan' = chan /\ bgpc' = "loop"
    /\ cur' = NoMsg
    /\ UNCHANGED <<session, result, message_id, runtime_enabled, wire, err, ctlpc>>

\* read_logs.on_message.
LogsOnMessage ==
    /\ flow = "logs" /\ bgpc = "on_message"
    /\ IF Accepted(cur)
         THEN /\ logs' = Append(logs, LogEntry(cur))
              /\ IF LimitReached(Len(logs'))
                   THEN chan' = "closed" /\ bgpc' = "teardown"
                   ELSE chan' = chan /\ bgpc' = "loop"
         ELSE logs' = logs /\ chan' = chan /\ bgpc' = "loop"
    /\ cur' = NoMsg
    /\ UNCHANGED <<session, result, message_id, runtime_enabled, wire, err, ctlpc>>

\* The transport fails (connection refused or broken): run_forever calls on_error.
TransportError(e) ==
    /\ bgpc \in {"connect", "loop"} /\ chan # "closed"
    /\ e \in TransportErrors
    /\ err' = e
    /\ bgpc' = "on_error"
    /\ UNCHANGED <<session, result, message_id, runtime_enabled, logs, chan, wire, cur, ctlpc>>

\* f"WebSocket error: {error}"
WebSocketError(e) == "WebSocket error: " \o e

\* execute_in_app.on_error
EvalOnError ==
    /\ flow = "eval" /\ bgpc = "on_error"
    /\ result' = [result EXCEPT !.error = WebSocketError(err)]
    /\ bgpc' = "teardown"
    /\ UNCHANGED <<session, message_id, runtime_enabled, logs, chan, wire, cur, err, ctlpc>>

\* read_logs.on_error: prints to stderr.
LogsOnError ==
    /\ flow = "logs" /\ bgpc = "on_error"
    /\ bgpc' = "teardown"
    /\ UNCHANGED <<session, result, message_id, runtime_enabled, logs, chan, wire, cur, err, ctlpc>>

\* The peer closes the channel; no callback is registered for it.
PeerClose ==
    /\ bgpc = "loop" /\ chan = "open"
    /\ bgpc' = "teardown"
    /\ UNCHANGED <<session, result, message_id, runtime_enabled, logs, chan, wire, cur, err, ctlpc>>

\* ws.run_forever() returns: after an error, a close by the peer or by a
\* callback, or when the read loop sees that the controlling thread closed
\* the channel.  The thread run_ws ends.
RunForeverReturns ==
    /\ \/ bgpc = "teardown"
       \/ bgpc \in {"connect", "loop"} /\ chan = "closed"
    /\ chan' = "closed"
    /\ bgpc' = "exited"
    /\ UNCHANGED <<session, result, message_id, runtime_enabled, logs, wire, cur, err, ctlpc>>

\* ------------------------------------------------------ controlling thread
\* thread.join(timeout=timeout) returns because run_ws ended.
JoinThreadEnded ==
    /\ ctlpc = "join" /\ bgpc = "exited"
    /\ ctlpc' = "is_alive"
    /\ UNCHANGED <<session, result, message_id, runtime_enabled, logs, chan, wire, bgpc, cur, err>>

\* Mutant of JoinTimeout: thread.join() without a timeout returns only when
\* run_ws has ended.
JoinWithoutTimeout ==
    /\ ctlpc = "join" /\ bgpc = "exited"
    /\ ctlpc' = "is_alive"
    /\ UNCHANGED <<session, result, message_id, runtime_enabled, logs, chan, wire, bgpc, cur, err>>

\* thread.join(timeout=timeout) returns because the deadline elapsed.
JoinTimeout ==
    /\ ctlpc = "join"
    /\ ctlpc' = "is_alive"
    /\ UNCHANGED <<session, result, message_id, runtime_enabled, logs, chan, wire, bgpc, cur, err>>

\* if thread.is_alive():
IsAlive ==
    /\ ctlpc = "is_alive"
    /\ ctlpc' = IF bgpc # "exited" THEN "close" ELSE "return"
    /\ UNCHANGED <<session, result, message_id, runtime_enabled, logs, chan, wire, bgpc, cur, err>>

\* Mutant of ForceClosed: the timeout path does not close the channel.
ForceCloseSkipped(c) == c

\* The channel after the controlling thread's ws.close().
ForceClosed(c) == "closed"

\* ws.close() on the timeout path.
CtlClose ==
    /\ ctlpc = "close"
    /\ chan' = ForceClosed(chan)
    /\ ctlpc' = IF flow = "eval" THEN "test_success" ELSE "return"
    /\ UNCHANGED <<session, result, message_id, runtime_enabled, logs, wire, bgpc, cur, err>>

\* if not result["success"] ...
TestSuccess ==
    /\ ctlpc = "test_success"
    /\ ctlpc' = IF ~result.success THEN "test_error" ELSE "return"
    /\ UNCHANGED <<session, result, message_id, runtime_enabled, logs, chan, wire, bgpc, cur, err>>

\* ... and not result["error"]:
TestError ==
    /\ ctlpc = "test_error"
    /\ ctlpc' = IF ~Truthy(result.error) THEN "set_timeout" ELSE "return"
    /\ UNCHANGED <<session, result, message_id, runtime_enabled, logs, chan, wire, bgpc, cur, err>>

\* result["error"] = "Timeout: Expression took too long to evaluate"
SetTimeoutError ==
    /\ ctlpc = "set_timeout"
    /\ result' = [result EXCEPT !.error = TIMEOUT_ERROR]
    /\ ctlpc' = "return"
    /\ UNCHANGED <<session, message_id, runtime_enabled, logs, chan, wire, bgpc, cur, err>>

\* return result / return logs
Return ==
    /\ ctlpc = "return"
    /\ ctlpc' = "returned"
    /\ UNCHANGED <<session, result, message_id, runtime_enabled, logs, chan, wire, bgpc, cur, err>>

Background ==
    \/ OnOpen
    \/ \E m \in EvalMessages \cup LogMessages : Deliver(m)
    \/ EvalOnEnableResponse
    \/ EvalOnEvaluateResponse
    \/ EvalSetOutput
    \/ EvalWsClose
    \/ EvalOnOtherMessage
    \/ LogsOnMessage
    \/ \E e \in TransportErrors : TransportError(e)
    \/ EvalOnError
    \/ LogsOnError
    \/ PeerClose
    \/ RunForeverReturns

Controller ==
    \/ JoinThreadEnded
    \/ JoinTimeout
    \/ IsAlive
    \/ CtlClose
    \/ TestSuccess
    \/ TestError
    \/ SetTimeoutError
    \/ Return

Next == Background \/ Controller

Spec == Init /\ [][Next]_vars

\* The controlling thread is the caller's own thread: it keeps running, and
\* the deadline of join elapses.
FairSpec == Spec /\ WF_vars(Controller)

\* --------------------------------------------------------- helper functions
\* The RemoteObjects the decoders are applied to: every field present or
\* missing, values primitive, null, and composite.
RemoteValues ==
    {RemoteValue(t, st, v, d, u) :
        t \in {Absent, "undefined", "object", "number"},
        st \in {Absent, "null", "array", ""},
        v \in {VAbsent, VNum(7), VStr(""), VNull, VList(<<>>), VList(<<1, 2>>)},
        d \in {Absent, "Array(2)"},
        u \in {Absent, "NaN"}}

\* The lists discover_apps returns, up to MaxApps entries; two of the apps
\* share an id.
KnownApps == {App("a", "App A"), App("b", "App B"), App("a", "Other A")}
AppLists == UNION {[1..n -> KnownApps] : n \in 0..MaxApps}

\* args.app_id: None when the option is not given, else any string.
AppIds == {NoneVal, "", "a", "b", "z"}

\* A helper function is about to be called outside any session.
HelperInit ==
    /\ flow = "none" /\ max_logs = 0 /\ pattern = Absent
    /\ result = InitResult
    /\ message_id = 1
    /\ runtime_enabled = FALSE
    /\ logs = <<>>
    /\ chan = "connecting"
    /\ wire = <<>>
    /\ bgpc = "connect"
    /\ cur = NoMsg
    /\ err = Absent
    /\ ctlpc = "join"
    /\ \/ \E rv \in RemoteValues :
            call = [fn |-> "decode", rv |-> rv, app_id |-> NoneVal, apps |-> <<>>]
       \/ \E id \in AppIds, apps \in AppLists :
            call = [fn |-> "resolve_app", rv |-> RV0, app_id |-> id, apps |-> apps]
    /\ ret = NoRet

\* output = format_result(rv)
CallFormatResult ==
    /\ call.fn = "decode" /\ ret.output = Absent
    /\ ret' = [ret EXCEPT !.output = format_result(call.rv)]
    /\ UNCHANGED <<flow, max_logs, pattern, call, result, message_id, runtime_enabled,
                   logs, chan, wire, bgpc, cur, err, ctlpc>>

\* text = format_remote_object(rv)
CallFormatRemoteObject ==
    /\ call.fn = "decode" /\ ret.text = Absent
    /\ ret' = [ret EXCEPT !.text = format_remote_object(call.rv)]
    /\ UNCHANGED <<flow, max_logs, pattern, call, result, message_id, runtime_enabled,
                   logs, chan, wire, bgpc, cur, err, ctlpc>>

\* app = resolve_app(args.app_id, args.metro_url)
CallResolveApp ==
    /\ call.fn = "resolve_app" /\ ret.target = NoOutcome
    /\ ret' = [ret EXCEPT !.target = resolve_app(call.app_id, call.apps)]
    /\ UNCHANGED <<flow, max_logs, pattern, call, result, message_id, runtime_enabled,
                   logs, chan, wire, bgpc, cur, err, ctlpc>>

HelperNext == CallFormatResult \/ CallFormatRemoteObject \/ CallResolveApp

HelperSpec == HelperInit /\ [][HelperNext]_vars

\* ================================================================== claims
\* A field of the SessionResult is populated when it is not None.
Populated(v) == v # NoneVal

\* The step at which execute_in_app returns result to its caller.
EvalReturns == flow = "eval" /\ ctlpc = "return" /\ ctlpc' = "returned"

\* C1: the SessionResult execute_in_app returns has exactly one of
\* output/error populated: success iff output is present, failure iff error
\* is present.
C1_ExactlyOnePopulated ==
    [][EvalReturns =>
         /\ result.success <=> Populated(result.output)
         /\ ~result.success <=> Populated(result.error)]_vars

\* C2: while the id=1 response has not been received, a response with id=2
\* is not taken as the evaluation result: on_message returns to the read loop
\* without writing the SessionResult and without closing the channel.
C2_NoResultBeforeEnable ==
    [][(/\ flow = "eval" /\ bgpc = "on_message" /\ bgpc' # bgpc
        /\ IsEvaluateResponse(cur) /\ ~runtime_enabled)
       => (result' = result /\ bgpc' = "loop" /\ chan' = chan)]_vars

\* C3: in an evaluation session the enable request (id=1) is the first thing
\* on the wire, it is out as soon as the channel is open, and every evaluate
\* request is preceded on the wire by a received response with id=1.
C3_HandshakeOrder ==
    flow = "eval" =>
        /\ wire # <<>> => wire[1] = Out(1, "Runtime.enable")
        /\ chan = "open" => wire # <<>>
        /\ \A i \in 1..Len(wire) :
              (wire[i].dir = "out" /\ wire[i].method = "Runtime.evaluate")
              => \E j \in 1..(i - 1) : wire[j].dir = "in" /\ wire[j].id = 1

\* C3 witness: the evaluate request went out after the enable response.
C3_Witness ==
    /\ flow = "eval"
    /\ Len(wire) >= 3
    /\ wire[2] = In(Ack(1))
    /\ wire[3] = Out(EvaluateId, "Runtime.evaluate")

\* C4: the ids of the requests a session sends are strictly increasing.
C4_IdsStrictlyIncreasing ==
    \A i, j \in 1..Len(Sent) : i < j => Sent[i].id < Sent[j].id

\* ids with the first occurrence of id removed.
RECURSIVE RemoveFirst(_, _)
RemoveFirst(ids, id) ==
    IF ids = <<>> THEN <<>>
    ELSE IF Head(ids) = id THEN Tail(ids)
    ELSE <<Head(ids)>> \o RemoveFirst(Tail(ids), id)

\* The ids of the requests sent and not yet answered after the wire history w:
\* a response answers one outstanding request with its id.
RECURSIVE Outstanding(_)
Outstanding(w) ==
    IF w = <<>> THEN <<>>
    ELSE LET last == w[Len(w)]
             before == Outstanding(SubSeq(w, 1, Len(w) - 1))
         IN  IF last.dir = "out" THEN Append(before, last.id)
             ELSE RemoveFirst(before, last.id)

\* C5: at most one request of the session is outstanding at any time.
C5_AtMostOneOutstanding == Len(Outstanding(wire)) <= 1

\* C6: a deadline that expires with neither a result nor an error produced
\* makes execute_in_app return the failure (success false, output absent)
\* whose error is the Timeout error, and the Timeout error replaces nothing
\* that had been produced: a returned Timeout error comes with success false
\* and no output.
C6_TimeoutResult ==
    [][(EvalReturns /\ result.error = TIMEOUT_ERROR) =>
         (~result.success /\ result.output = NoneVal)]_vars

\* C7: both flows return to the caller, whatever the peer does.
C7_FlowReturns == <>(ctlpc = "returned")

\* C7 witness: a flow has returned although the peer never opened the channel.
C7_Witness == ctlpc = "returned" /\ wire = <<>> /\ bgpc = "connect"

\* C8: once a flow has returned, the channel is closed.
C8_ClosedOnReturn == ctlpc = "returned" => chan = "closed"

\* C8 witness: a flow has returned on the timeout path, the background thread
\* still inside run_forever, and the channel is closed.
C8_Witness ==
    /\ ctlpc = "returned" /\ chan = "closed"
    /\ bgpc = "loop" /\ wire # <<>>

\* The error the specification gives for exception details: the description
\* if present, else the summary text, else "Exception".
SpecExceptionError(m) ==
    IF m.excDesc # Absent THEN m.excDesc
    ELSE IF m.excText # Absent THEN m.excText ELSE "Exception"

\* on_message handles an id=2 response whose result carries exception details.
HandlesException ==
    /\ flow = "eval" /\ bgpc = "on_message" /\ bgpc' # bgpc
    /\ IsEvaluateResponse(cur) /\ cur.hasResult /\ cur.hasExc

\* C9 as claimed: every id=2 response whose result carries exception details
\* makes the SessionResult a failure whose error is the description if
\* present, else the summary text, else "Exception"; a nested result is not
\* decoded.
C9_ExceptionPrecedence ==
    [][HandlesException =>
         /\ result' = [success |-> FALSE, output |-> NoneVal,
                       error |-> SpecExceptionError(cur)]
         /\ bgpc' = "ws_close"]_vars

\* C9 as amended: for an id=2 response that carries no error object and whose
\* result carries exception details, the error is the description if present
\* and non-empty, else the summary text if present, else "Exception"; the
\* SessionResult is a failure and a nested result is not decoded.
C9_ExceptionPrecedenceAmended ==
    [][(HandlesException /\ ~cur.hasError) =>
         /\ result' = [success |-> FALSE, output |-> NoneVal,
                       error |-> IF cur.excDesc \notin {Absent, ""} THEN cur.excDesc
                                 ELSE IF cur.excText # Absent THEN cur.excText
                                 ELSE "Exception"]
         /\ bgpc' = "ws_close"]_vars

\* C9 witness: exception details and a nested result arrived together; the
\* error is the exception's description and no output was decoded.
C9_Witness ==
    /\ flow = "eval" /\ bgpc = "ws_close"
    /\ cur.hasExc /\ cur.hasInner /\ ~cur.hasError
    /\ result = [success |-> FALSE, output |-> NoneVal, error |-> "TypeError: x"]

\* C10: after a transport error was reported to on_error, the result
\* execute_in_app returns is a failure without output whose error includes
\* the description of the transport error.
C10_TransportErrorResult ==
    [][(EvalReturns /\ err # Absent /\ bgpc # "on_error") =>
         /\ ~result.success
         /\ result.output = NoneVal
         /\ Contains(result.error, err)]_vars

\* m is an event whose method denotes a console API call.
ConsoleEvent(m) == m.kind = "json" /\ m.method = CONSOLE_API

\* read_logs.on_message handles the message in flight.
LogsHandles == flow = "logs" /\ bgpc = "on_message" /\ bgpc' # bgpc

\* C11: the number of records read_logs has accumulated never exceeds the
\* configured maximum.
C11_NeverExceedsMax == flow = "logs" => Len(logs) <= max_logs

\* C12: with a filter pattern configured, a console event whose text does not
\* match adds no record and does not trigger the limit close, and every
\* accumulated record matches the pattern.
C12_FilterDropsBeforeCounting ==
    [][/\ (LogsHandles /\ ConsoleEvent(cur) /\ pattern # Absent
              /\ ~Contains(EventText(cur), pattern))
          => (logs' = logs /\ chan' = chan /\ bgpc' = "loop")
       /\ (flow = "logs" /\ pattern # Absent)
          => \A i \in 1..Len(logs') : Contains(logs'[i].text, pattern)]_vars

\* C12 witness: with one matching record accumulated, a console event that
\* does not match the pattern is at the filter.
C12_Witness ==
    /\ flow = "logs" /\ pattern = "err" /\ max_logs = 2
    /\ bgpc = "on_message" /\ ConsoleEvent(cur)
    /\ ~Contains(EventText(cur), pattern)
    /\ ~Contains(EventText(cur), UNSUPPORTED_MSG)
    /\ Len(logs) = 1

\* C13: no accumulated record contains the unsupported-debugging-client
\* diagnostic; a console event carrying it adds no record and does not
\* trigger the limit close.
C13_DiagnosticDropped ==
    [][/\ (LogsHandles /\ ConsoleEvent(cur) /\ Contains(EventText(cur), UNSUPPORTED_MSG))
          => (logs' = logs /\ chan' = chan /\ bgpc' = "loop")
       /\ flow = "logs"
          => \A i \in 1..Len(logs') : ~Contains(logs'[i].text, UNSUPPORTED_MSG)]_vars

\* C13 witness: the diagnostic arrives as the sole argument of a console
\* event while one record is accumulated.
C13_Witness ==
    /\ flow = "logs" /\ pattern = Absent /\ max_logs = 2
    /\ bgpc = "on_message"
    /\ cur = Event(CONSOLE_API, "warning", <<StrArg(UNSUPPORTED_MSG)>>)
    /\ Len(logs) = 1

\* C14: the records of a capture session are those of the console events
\* accepted so far, in delivery order: logs changes only by on_message
\* appending the record of the event in flight (its level, and as text its
\* decoded arguments joined by spaces), and the controlling thread returns
\* logs as it is, also on the timeout path.
C14_RecordsInDeliveryOrder ==
    [][flow = "logs" =>
         \/ logs' = logs
         \/ /\ bgpc = "on_message" /\ ConsoleEvent(cur) /\ ctlpc' = ctlpc
            /\ Len(logs') = Len(logs) + 1
            /\ SubSeq(logs', 1, Len(logs)) = logs
            /\ logs'[Len(logs')].level = Get(cur.level, "log")
            /\ logs'[Len(logs')].text = EventText(cur)]_vars

\* C14 witness: read_logs has returned without error two different records
\* out of three delivered messages.
C14_Witness ==
    /\ flow = "logs" /\ ctlpc = "returned" /\ err = Absent
    /\ Delivered = 3 /\ Len(logs) = 2 /\ logs[1] # logs[2]

\* C15: a capture session records a console event only after the response
\* with id=1 has been received.
C15_RecordOnlyWhenReady ==
    (flow = "logs" /\ logs # <<>>) =>
        \E j \in 1..Len(wire) : wire[j].dir = "in" /\ wire[j].id = 1

\* C19: once execute_in_app or read_logs has returned, no background
\* callback changes the returned SessionResult or appends to the returned
\* record sequence.
C19_ReturnedIsFinal ==
    [][ctlpc = "returned" =>
         /\ flow = "eval" => result' = result
         /\ flow = "logs" => logs' = logs]_vars

\* A delivered message that is not a response with id 1 or id 2: an id-less
\* event, a response with another id, or text that is not JSON.
NeitherResponse(m) == m.kind # "json" \/ m.id \notin {1, 2}

\* C20: in an evaluation session on_message discards a message that is not a
\* response with id 1 or 2 without effect: SessionResult and handshake flag
\* unchanged, no request sent, channel not closed.
C20_OtherMessagesDiscarded ==
    [][(flow = "eval" /\ bgpc = "on_message" /\ bgpc' # bgpc /\ NeitherResponse(cur))
         => /\ result' = result
            /\ runtime_enabled' = runtime_enabled
            /\ message_id' = message_id
            /\ wire' = wire
            /\ chan' = chan
            /\ bgpc' = "loop"]_vars

\* C20 witness: a response with id 3 was delivered before the enable response
\* and handled; the session is as it was after on_open.
C20_Witness ==
    /\ flow = "eval" /\ bgpc = "loop" /\ cur = NoMsg
    /\ wire = <<Out(1, "Runtime.enable"), In(Ack(3))>>
    /\ result = InitResult /\ ~runtime_enabled /\ chan = "open"

\* The plain or pretty-printed text of an inline value.
Rendered(v) == IF v.tag = "list" THEN JsonDumps(v) ELSE PyStr(v)

\* The six-rule ordered decision of the decoder, first match wins. The type
\* tag of a RemoteValue is mandatory; an empty subtype tag counts as none.
SixRules(rv) ==
    CASE rv.type = "undefined" -> "undefined"
      [] rv.type # "undefined" /\ rv.subtype = "null" -> "null"
      [] OTHER ->
           CASE rv.value # VAbsent -> Rendered(rv.value)
             [] rv.value = VAbsent /\ rv.description # Absent -> rv.description
             [] rv.value = VAbsent /\ rv.description = Absent
                  /\ rv.unserializableValue # Absent -> rv.unserializableValue
             [] OTHER ->
                  IF rv.subtype \in {Absent, ""} THEN "[" \o rv.type \o "]"
                  ELSE "[" \o rv.type \o " " \o rv.subtype \o "]"

\* C16: format_result equals the six-rule ordered reference on every
\* RemoteValue with a type tag.
C16_FormatResultSixRules ==
    (call.fn = "decode" /\ call.rv.type # Absent /\ ret.output # Absent)
        => ret.output = SixRules(call.rv)

\* C16 witness: format_result has been applied to a value carrying an inline
\* value, a description and an unserializable value, and rendered the value.
C16_Witness ==
    /\ call.fn = "decode"
    /\ call.rv = RemoteValue("object", "array", VList(<<1, 2>>), "Array(2)", "NaN")
    /\ ret.output = "[\n  1,\n  2\n]"

\* C17: for every RemoteValue format_remote_object returns the same string as
\* format_result.
C17_SameDecoder ==
    (call.fn = "decode" /\ ret.output # Absent /\ ret.text # Absent)
        => ret.text = ret.output

\* The outcomes of the resolver table.
NoTargets(o) == o.app = NoApp /\ o.error = NO_APPS_ERROR
TargetNotFound(o, apps) ==
    /\ o.app = NoApp
    /\ Contains(o.error, "not found")
    /\ o.available = Available(apps)
AmbiguousTarget(o, apps) ==
    /\ o.app = NoApp
    /\ o.error = MULTIPLE_APPS_ERROR
    /\ o.available = Available(apps)

\* C18: resolve_app follows the resolver table for every candidate list and
\* every optional explicit id, where every string is an explicit id: no
\* candidates fail with NoTargets; an explicit id matching a candidate
\* returns a candidate with that id, the same whatever the order of the
\* others; an explicit id matching none fails with TargetNotFound listing all
\* candidates; no explicit id and one candidate returns it; no explicit id and
\* several candidates fail with AmbiguousTarget listing them all.
C18_ResolverTable ==
    (call.fn = "resolve_app" /\ ret.target # NoOutcome) =>
        LET o == ret.target
            apps == call.apps
            id == call.app_id
            matches == {i \in 1..Len(apps) : apps[i].id = id}
        IN  IF apps = <<>> THEN NoTargets(o)
            ELSE IF id # NoneVal
                 THEN IF matches # {}
                        THEN o.error = NoneVal /\ \E i \in matches : o.app = apps[i]
                        ELSE TargetNotFound(o, apps)
            ELSE IF Len(apps) = 1 THEN o.error = NoneVal /\ o.app = apps[1]
            ELSE AmbiguousTarget(o, apps)

====
